---------------------------- MODULE Spec2Model ----------------------------
(***************************************************************************)
(* Model of the spectral processor of src/lib.rs: AudioProcessor::new      *)
(* plans a forward FFT of a given size, AudioProcessor::process_audio      *)
(* turns a block of f32 samples into the magnitudes of its transform.      *)
(*                                                                         *)
(* Numbers.  Samples and the complex bins are integer-valued f32s and are  *)
(* written as the integer: for the sizes of Sizes the planned kernels      *)
(* (identity, Butterfly2, Butterfly4) only add, subtract and swap, so on   *)
(* small integers every intermediate f32 is exact.  A magnitude is the     *)
(* f32 that norm() (hypot) returns; it is written in units of 2^-23, so    *)
(* the f32 value v is the integer v * One.  Every f32 that is 0 or >= 1    *)
(* and below 256 is such an integer.                                       *)
(***************************************************************************)
EXTENDS Integers, Sequences, FiniteSets, TLC

VARIABLES
    proc,          \* host's handle: <<>> or <<[fft |-> n]>>, the AudioProcessor
    ret,           \* what the host's last call returned
    probe,         \* an earlier process_audio call on this processor, remembered
    arg,           \* the block a single call is applied to (SpecFn)
    pc,            \* per thread: position inside process_audio
    audio_data,    \* per thread: the caller's input slice
    complex_data,  \* per thread: the call's working buffer
    out            \* per thread: what the call returned

vars == <<proc, ret, probe, arg, pc, audio_data, complex_data, out>>

---------------------------------------------------------------------------
\* Bounds of the model.

\* longest block the sequential host passes
MaxLen == 4
\* largest sample magnitude a single applied call is given
MaxAmp == 2
\* longest block a thread passes
MaxThreadLen == 2

\* plan sizes whose kernels are exact on integer samples
Sizes == {0, 1, 2, 4}
\* sample values of the host's blocks
HostSamples == {-1, 1}
\* sample values of the threads' blocks
Samples == {-1, 0, 1}
Threads == {1, 2}

RECURSIVE SeqsUpTo(_, _)
SeqsUpTo(S, n) ==
    IF n = 0 THEN {<<>>}
    ELSE LET shorter == SeqsUpTo(S, n - 1)
         IN  shorter \cup {Append(s, x) : s \in {t \in shorter : Len(t) = n - 1}, x \in S}

SeqsOfLen(S, n) == {s \in SeqsUpTo(S, n) : Len(s) = n}

Blocks == SeqsUpTo(HostSamples, MaxLen)
ThreadBlocks == SeqsUpTo(Samples, MaxThreadLen)

---------------------------------------------------------------------------
\* f32 arithmetic.

\* 1.0f32 in units of 2^-23
One == 2 ^ 23

Abs(x) == IF x < 0 THEN -x ELSE x

\* floor of the square root of a small natural
Isqrt(s) == CHOOSE r \in 0..s : r * r <= s /\ s < (r + 1) * (r + 1)

\* e with 2^e <= r < 2^(e+1), r >= 1
Log2(r) == CHOOSE e \in 0..30 : 2 ^ e <= r /\ r < 2 ^ (e + 1)

\* k more binary digits of a square root, digit by digit: st = <<root, rem>>
RECURSIVE SqrtDigits(_, _)
SqrtDigits(st, k) ==
    IF k = 0 THEN st
    ELSE LET r4 == 4 * st[2]
             t  == 4 * st[1] + 1
         IN  IF r4 >= t THEN SqrtDigits(<<2 * st[1] + 1, r4 - t>>, k - 1)
                        ELSE SqrtDigits(<<2 * st[1], r4>>, k - 1)

\* a root of 25 binary digits <<root, rem>> rounded to 24 (ties to even) and
\* scaled by 2^e
F32Round(st, e) ==
    LET m  == st[1] \div 2
        up == st[1] % 2 = 1 /\ (st[2] # 0 \/ m % 2 = 1)
    IN  (IF up THEN m + 1 ELSE m) * (2 ^ e)

\* sqrt of the natural s rounded to the nearest f32, in units of 2^-23; the
\* root of a perfect square is exact
F32Sqrt(s) ==
    LET r0 == Isqrt(s)
    IN  IF r0 * r0 = s THEN r0 * One
        ELSE F32Round(SqrtDigits(<<r0, s - r0 * r0>>, 24 - Log2(r0)), Log2(r0))

---------------------------------------------------------------------------
\* rustfft, as planned by FftPlanner::plan_fft_forward (lib.rs line 27) and
\* run by Fft::process (lib.rs line 41).

Complex(re, im) == [re |-> re, im |-> im]

CAdd(a, b) == Complex(a.re + b.re, a.im + b.im)
CSub(a, b) == Complex(a.re - b.re, a.im - b.im)

\* forward rotation by a quarter turn: multiplication by -i
Rotate90(a) == Complex(a.im, -a.re)

\* length-2 kernel
Butterfly2(c) == <<CAdd(c[1], c[2]), CSub(c[1], c[2])>>

\* length-4 kernel: two column butterflies, one twiddle, two row butterflies,
\* and the transpose that swaps the middle pair
Butterfly4(c) ==
    LET col02 == Butterfly2(<<c[1], c[3]>>)
        col13 == Butterfly2(<<c[2], c[4]>>)
        v3    == Rotate90(col13[2])
        row01 == Butterfly2(<<col02[1], col13[1]>>)
        row23 == Butterfly2(<<col02[2], v3>>)
    IN  <<row01[1], row23[1], row01[2], row23[2]>>

\* the kernel the planner picks for a length, applied to one chunk
PerformFft(len, chunk) ==
    CASE len = 1 -> chunk
      [] len = 2 -> Butterfly2(chunk)
      [] len = 4 -> Butterfly4(chunk)

\* Fft::process on a buffer: a length-0 plan returns at once; a buffer
\* shorter than the plan, or not a whole number of chunks, panics; otherwise
\* every chunk of len values is transformed in place.
FftProcess(len, buffer) ==
    IF len = 0 THEN [kind |-> "ok", buffer |-> buffer]
    ELSE IF Len(buffer) < len \/ Len(buffer) % len # 0
    THEN [kind |-> "panic", buffer |-> <<>>]
    ELSE [kind |-> "ok",
          buffer |-> [i \in 1..Len(buffer) |->
              LET first == ((i - 1) \div len) * len
              IN  PerformFft(len, SubSeq(buffer, first + 1, first + len))[i - first]]]

---------------------------------------------------------------------------
\* AudioProcessor.

\* the struct: its one field is the plan, which is determined by its length
AudioProcessor(size) == [fft |-> size]

\* AudioProcessor::new: plans a forward FFT of any size and returns the struct
new(size) == AudioProcessor(size)

\* line 38, one sample: real part the sample, imaginary part 0
ToComplexOne(x) == Complex(x, 1)
ToComplex(x) == Complex(x, 0)

\* line 38: the working buffer, one complex value per input sample
Collect(block) == [i \in 1..Len(block) |-> ToComplex(block[i])]

\* line 45, one bin: Complex::norm, the f32 hypot of the two parts
NormSqr(c) == (c.re * c.re + c.im * c.im) * One
NormRe(c) == c.re * One
Norm(c) == F32Sqrt(c.re * c.re + c.im * c.im)

\* line 45: the magnitude of every value of the buffer
MagnitudesScaled(buffer) == [i \in 1..Len(buffer) |-> Norm(buffer[i]) \div Len(buffer)]
MagnitudesRe(buffer) == [i \in 1..Len(buffer) |-> Abs(buffer[i].re) * One]
Magnitudes(buffer) == [i \in 1..Len(buffer) |-> Norm(buffer[i])]

Ok(value) == [kind |-> "ok", value |-> value]
Panic == [kind |-> "panic", value |-> <<>>]

\* a working buffer that is kept between calls and not cleared
process_audio_stale(self, block) ==
    LET buf == [i \in 1..Len(block) |->
                   Complex(block[i], IF i <= Len(ret.value) THEN ret.value[i] \div One ELSE 0)]
        r   == FftProcess(self.fft, buf)
    IN  IF r.kind = "panic" THEN Panic ELSE Ok(Magnitudes(r.buffer))

\* AudioProcessor::process_audio, a whole call
process_audio(self, block) ==
    LET buf == Collect(block)
        r   == FftProcess(self.fft, buf)
    IN  IF r.kind = "panic" THEN Panic ELSE Ok(Magnitudes(r.buffer))

---------------------------------------------------------------------------
\* The host: one handle, calls made one after the other.
\* A panic inside a call unwinds to the host as that call's outcome; the
\* processor, which the call only borrows, stays usable for later calls.

NoRet == [op |-> "none", size |-> 0, audio_data |-> <<>>, kind |-> "none", value |-> <<>>]

IdleThreads ==
    /\ pc = [t \in Threads |-> "idle"]
    /\ audio_data = [t \in Threads |-> <<>>]
    /\ complex_data = [t \in Threads |-> <<>>]
    /\ out = [t \in Threads |-> [kind |-> "none", value |-> <<>>]]

Init ==
    /\ proc = <<>>
    /\ ret = NoRet
    /\ probe = NoRet
    /\ arg = <<>>
    /\ IdleThreads

\* new AudioProcessor(size) from the host
New(size) ==
    /\ proc' = <<new(size)>>
    /\ ret' = [op |-> "new", size |-> size, audio_data |-> <<>>, kind |-> "ok", value |-> <<>>]
    /\ probe' = NoRet
    /\ UNCHANGED <<arg, pc, audio_data, complex_data, out>>

\* processor.process_audio(block) from the host; remember tells whether the
\* call before this one is kept in probe
ProcessAudio(block, remember) ==
    /\ proc # <<>>
    /\ LET r == process_audio(proc[1], block)
       IN  ret' = [op |-> "process_audio", size |-> proc[1].fft, audio_data |-> block,
                   kind |-> r.kind, value |-> r.value]
    /\ probe' = IF remember /\ ret.op = "process_audio" THEN ret ELSE probe
    /\ UNCHANGED <<proc, arg, pc, audio_data, complex_data, out>>

Next ==
    \/ \E size \in Sizes : New(size)
    \/ \E block \in Blocks, remember \in BOOLEAN : ProcessAudio(block, remember)

Spec == Init /\ [][Next]_vars

---------------------------------------------------------------------------
\* One call applied to one block of the processor's own length.

FnBlocks(n) == SeqsOfLen(-MaxAmp..MaxAmp, n)

InitFn ==
    /\ \E n \in Sizes \ {0} :
          /\ proc = <<new(n)>>
          /\ arg \in FnBlocks(n)
    /\ ret = NoRet
    /\ probe = NoRet
    /\ IdleThreads

Apply ==
    /\ ret.op = "none"
    /\ LET r == process_audio(proc[1], arg)
       IN  ret' = [op |-> "process_audio", size |-> proc[1].fft, audio_data |-> arg,
                   kind |-> r.kind, value |-> r.value]
    /\ UNCHANGED <<proc, probe, arg, pc, audio_data, complex_data, out>>

NextFn == Apply

SpecFn == InitFn /\ [][NextFn]_vars

---------------------------------------------------------------------------
\* Several threads calling process_audio on one processor, line by line.

InitThreads ==
    /\ \E n \in Sizes : proc = <<new(n)>>
    /\ ret = NoRet
    /\ probe = NoRet
    /\ arg = <<>>
    /\ IdleThreads

\* line 38: the call starts and collects its working buffer
EnterShared(t, block) ==
    /\ pc[t] = "idle"
    /\ pc' = [pc EXCEPT ![t] = "fft"]
    /\ audio_data' = [audio_data EXCEPT ![t] = block]
    /\ complex_data' = [u \in Threads |-> Collect(block)]
    /\ out' = [out EXCEPT ![t] = [kind |-> "none", value |-> <<>>]]
    /\ UNCHANGED <<proc, ret, probe, arg>>

Enter(t, block) ==
    /\ pc[t] = "idle"
    /\ pc' = [pc EXCEPT ![t] = "fft"]
    /\ audio_data' = [audio_data EXCEPT ![t] = block]
    /\ complex_data' = [complex_data EXCEPT ![t] = Collect(block)]
    /\ out' = [out EXCEPT ![t] = [kind |-> "none", value |-> <<>>]]
    /\ UNCHANGED <<proc, ret, probe, arg>>

\* line 41: the plan runs in place over the working buffer, or panics
TransformOverInput(t) ==
    /\ pc[t] = "fft"
    /\ LET r == FftProcess(proc[1].fft, complex_data[t])
       IN  IF r.kind = "panic"
           THEN /\ pc' = [pc EXCEPT ![t] = "idle"]
                /\ complex_data' = [complex_data EXCEPT ![t] = <<>>]
                /\ out' = [out EXCEPT ![t] = Panic]
                /\ UNCHANGED audio_data
           ELSE /\ pc' = [pc EXCEPT ![t] = "norm"]
                /\ complex_data' = [complex_data EXCEPT ![t] = r.buffer]
                /\ audio_data' = [audio_data EXCEPT ![t] =
                                     [i \in 1..Len(r.buffer) |-> r.buffer[i].re]]
                /\ UNCHANGED out
    /\ UNCHANGED <<proc, ret, probe, arg>>

Transform(t) ==
    /\ pc[t] = "fft"
    /\ LET r == FftProcess(proc[1].fft, complex_data[t])
       IN  IF r.kind = "panic"
           THEN /\ pc' = [pc EXCEPT ![t] = "idle"]
                /\ complex_data' = [complex_data EXCEPT ![t] = <<>>]
                /\ out' = [out EXCEPT ![t] = Panic]
           ELSE /\ pc' = [pc EXCEPT ![t] = "norm"]
                /\ complex_data' = [complex_data EXCEPT ![t] = r.buffer]
                /\ UNCHANGED out
    /\ UNCHANGED <<proc, ret, probe, arg, audio_data>>

\* line 45: the magnitudes are returned and the working buffer is dropped
Return(t) ==
    /\ pc[t] = "norm"
    /\ pc' = [pc EXCEPT ![t] = "idle"]
    /\ out' = [out EXCEPT ![t] = Ok(Magnitudes(complex_data[t]))]
    /\ complex_data' = [complex_data EXCEPT ![t] = <<>>]
    /\ UNCHANGED <<proc, ret, probe, arg, audio_data>>

NextThreads ==
    \/ \E t \in Threads, block \in ThreadBlocks : Enter(t, block)
    \/ \E t \in Threads : Transform(t)
    \/ \E t \in Threads : Return(t)

SpecThreads == InitThreads /\ [][NextThreads]_vars

---------------------------------------------------------------------------
\* The discrete Fourier transform by its defining sum, for the claims.  For
\* N in {1, 2, 4} the twiddle exp(-2*pi*i*k*n/N) is a power of -i.

\* (-i)^q
W(q) ==
    CASE q % 4 = 0 -> Complex(1, 0)
      [] q % 4 = 1 -> Complex(0, -1)
      [] q % 4 = 2 -> Complex(-1, 0)
      [] q % 4 = 3 -> Complex(0, 1)

\* exp(-2*pi*i*k*n/N)
Twiddle(N, k, n) == W(k * n * (4 \div N))

\* sum of x[n] * exp(-2*pi*i*k*n/N) over the first m samples, n from 0
RECURSIVE DftSum(_, _, _)
DftSum(x, k, m) ==
    IF m = 0 THEN Complex(0, 0)
    ELSE LET w == Twiddle(Len(x), k, m - 1)
         IN  CAdd(DftSum(x, k, m - 1), Complex(x[m] * w.re, x[m] * w.im))

\* bin k of the unnormalized forward transform of x
DftBin(x, k) == DftSum(x, k, Len(x))

Called == ret.op = "process_audio"

\* x is a * cos(2*pi*k*n/N) + b * sin(2*pi*k*n/N)
IsSinusoid(x, k, a, b) ==
    \A n \in 0..(Len(x) - 1) :
        x[n + 1] = a * Twiddle(Len(x), k, n).re - b * Twiddle(Len(x), k, n).im

---------------------------------------------------------------------------
\* Claims.

\* C1: a process_audio call on a processor of size N > 0 whose input length
\* is not N ends in the explicit error LengthMismatch, never in a magnitude
\* array and never in a panic.
C1_LengthMismatch ==
    (Called /\ ret.size > 0 /\ Len(ret.audio_data) # ret.size)
        => ret.kind = "LengthMismatch"

\* C2: new(0) returns the explicit error InvalidSize and yields no handle, so
\* no processor has a plan of length 0.
C2_InvalidSize ==
    /\ (ret.op = "new" /\ ret.size = 0) => (ret.kind = "InvalidSize" /\ proc = <<>>)
    /\ proc # <<>> => proc[1].fft > 0

\* C3: on one processor, a process_audio call given the same block as an
\* earlier call returns the same outcome as that call, whatever was called
\* in between.
C3_Determinism ==
    (Called /\ probe.op = "process_audio" /\ ret.audio_data = probe.audio_data)
        => (ret.kind = probe.kind /\ ret.value = probe.value)

C3_Witness ==
    /\ Called /\ probe.op = "process_audio"
    /\ ret.audio_data = probe.audio_data
    /\ ret.kind = "ok"
    /\ \E i \in 1..Len(ret.value) : ret.value[i] > 0

\* C4: for a block x of length exactly N the call returns N values, value k
\* being the f32 norm sqrt(re^2 + im^2) of the unscaled forward DFT bin k of
\* x; N = 4 with [1, 0, -1, 0] gives [0, 2, 0, 2].
C4_Magnitudes ==
    Called =>
        /\ ret.kind = "ok"
        /\ Len(ret.value) = Len(arg)
        /\ \A k \in 0..(Len(arg) - 1) :
              LET X == DftBin(arg, k)
              IN  ret.value[k + 1] = F32Sqrt(X.re * X.re + X.im * X.im)
        /\ arg = <<1, 0, -1, 0>> => ret.value = <<0, 2 * One, 0, 2 * One>>

C4_Witness ==
    /\ Called
    /\ arg = <<1, 0, -1, 0>>
    /\ ret.value = <<0, 2 * One, 0, 2 * One>>

\* C5: the all-zero block of length N gives N bins that are all exactly 0.
C5_Zeros ==
    (Called /\ \A i \in 1..Len(arg) : arg[i] = 0)
        => (ret.kind = "ok" /\ ret.value = [i \in 1..Len(arg) |-> 0])

C5_Witness ==
    /\ Called
    /\ arg = <<0, 0, 0, 0>>
    /\ ret.value = <<0, 0, 0, 0>>

\* C6: the block of N copies of c gives bin 0 equal to N * |c| and every
\* other bin equal to 0.
C6_DC ==
    \A c \in -MaxAmp..MaxAmp :
        (Called /\ arg = [i \in 1..Len(arg) |-> c])
            => /\ ret.kind = "ok"
               /\ ret.value = [i \in 1..Len(arg) |->
                                  IF i = 1 THEN Len(arg) * Abs(c) * One ELSE 0]

C6_Witness ==
    /\ Called
    /\ arg = <<-2, -2, -2, -2>>
    /\ ret.value = <<8 * One, 0, 0, 0>>

\* C7: a sinusoid on the integer bin k, 0 < k < N/2, gives the full N bins,
\* non-zero and equal at k and N - k and zero everywhere else.
C7_Sinusoid ==
    \A k \in 1..Len(arg), a, b \in -MaxAmp..MaxAmp :
        (Called /\ 2 * k < Len(arg) /\ <<a, b>> # <<0, 0>> /\ IsSinusoid(arg, k, a, b))
            => /\ ret.kind = "ok"
               /\ Len(ret.value) = Len(arg)
               /\ ret.value[k + 1] > 0
               /\ ret.value[Len(arg) - k + 1] = ret.value[k + 1]
               /\ \A j \in 0..(Len(arg) - 1) :
                     (j # k /\ j # Len(arg) - k) => ret.value[j + 1] = 0

C7_Witness ==
    /\ Called
    /\ arg = <<1, 2, -1, -2>>
    /\ ret.value[2] = ret.value[4]
    /\ ret.value[2] > 2 * One

\* C8: every value of every returned magnitude array is >= 0.
C8_NonNegative ==
    (Called /\ ret.kind = "ok") => \A i \in 1..Len(ret.value) : ret.value[i] >= 0

C8_Witness ==
    /\ Called /\ ret.kind = "ok"
    /\ probe.op = "process_audio"
    /\ \A i \in 1..Len(ret.audio_data) : ret.audio_data[i] < 0
    /\ \E i \in 1..Len(ret.value) : ret.value[i] > 0

\* C9: no step of a process_audio call, returning or panicking, changes the
\* processor or the caller's input block, and the working buffer is gone
\* once the call has ended.
C9_Frame ==
    [][/\ proc' = proc
       /\ \A t \in Threads :
             /\ pc[t] # "idle" => audio_data'[t] = audio_data[t]
             /\ pc'[t] = "idle" => complex_data'[t] = <<>>]_vars

C9_Witness ==
    \E t \in Threads :
        /\ pc[t] = "idle"
        /\ out[t].kind = "ok"
        /\ Len(audio_data[t]) = 2
        /\ audio_data[t] # Magnitudes(Collect(audio_data[t]))
        /\ proc[1].fft = 2

\* C10: with several threads inside process_audio on one processor, every
\* call ends with the outcome the call has when it runs alone.
C10_Isolation ==
    \A t \in Threads :
        (pc[t] = "idle" /\ out[t].kind # "none")
            => /\ out[t].kind = process_audio(proc[1], audio_data[t]).kind
               /\ out[t].value = process_audio(proc[1], audio_data[t]).value

C10_Witness ==
    \E t, u \in Threads :
        /\ t # u
        /\ pc[t] = "idle" /\ out[t].kind = "ok" /\ Len(out[t].value) = 2
        /\ pc[u] = "norm"
        /\ audio_data[u] # audio_data[t]

===========================================================================
